---- MODULE Spec2Model ----
(***************************************************************************)
(* A model of easyrqst (src/httpmaker.go): one easyRequest client, the     *)
(* calls Get / Post / Custom made through it, the cache capability         *)
(* (ICacheFn) the calls are bound to, and the transport.                   *)
(*                                                                         *)
(* A call is prepareRequest followed by executeRequest.  executeRequest is *)
(* cut at every read of the client's field h.cacheObj, the only field of   *)
(* the client a call writes, so that calls made in parallel on one client  *)
(* interleave exactly where the code touches shared memory.  Spec runs the *)
(* calls one after the other; SpecConc runs them in parallel.              *)
(***************************************************************************)
EXTENDS Integers, Sequences, FiniteSets, TLC

(* ------------------------------ bounds -------------------------------- *)
NumProcs == 2      \* callers (goroutines) making one call each in parallel
MaxCalls == 2      \* calls made one after the other
MaxDepth == 2      \* levels of nesting of an XML payload

Procs == 1..NumProcs

(* --------------------------- program constants ------------------------ *)
StatusOK == 200
StatusCreated == 201
DefaultMaxRetry == 3           \* maxRetry: 3
DefaultRetryWaitMax == 1       \* retryWaitMax: 1 * time.Second, in seconds

(* ------------------------------ values -------------------------------- *)
Nil == [nil |-> TRUE]                 \* a nil pointer / nil interface value
NoError == "nil"

Caches == {"c1", "c2"}                \* ICacheFn instances
NilCache == "nilcache"                \* a nil ICacheFn handed to WithCache

\* cacheObj values built by WithCache
NewCacheObj(cache, period, idempotency) ==
  [fncs |-> cache, expiry |-> period, idempotency |-> idempotency]

\* the WithCache options the callers use (or none: Nil)
CacheOptions ==
  { Nil,
    NewCacheObj("c1", 60, "a"),
    NewCacheObj("c2", 120, "b"),
    NewCacheObj(NilCache, 60, "a") }

\* the client's endpoint, as url.Parse splits it: path and query
Endpoint == [path |-> "/json", query |-> <<<<"a", "1">>>>]

\* WithQueries maps (none is the empty map prepareRequest starts with)
QueryOptions == { <<>>, <<<<"b", "x y">>>> }

ContentTypes == {"application/json", "application/x-www-form-urlencoded",
                 "multipart/form-data", "application/xml"}

\* WithHeaders maps (none is the empty map prepareRequest starts with): a
\* Content-Type under the key the code looks up, one under another spelling of
\* the same header name, and a header that is not a Content-Type
EmptyMap == [k \in {} |-> ""]
HeaderOptions ==
  {EmptyMap} \cup {("Content-Type" :> t) : t \in ContentTypes}
    \cup {("content-type" :> "application/xml"), ("X-Trace" :> "1")}
PayloadShapes == {"nil", "map[string]string", "map[string]interface{}", "struct"}
FileOptions == {"nil", "readable", "missing"}

CustomMethods == {"PUT", ""}
Statuses == {StatusOK, StatusCreated, 404}
Bodies == { <<>>, <<104, 105>> }

VARIABLES
  hCacheObj,   \* easyRequest.cacheObj
  store,       \* store[c]: what cache c holds, key -> value
  pc,          \* pc[p]: where caller p's call stands
  req,         \* req[p]: the prepared *http.Request
  supplied,    \* supplied[p]: the cacheObj option of p's call (Nil: none)
  key,         \* key[p]: the local key of executeRequest
  cached,      \* cached[p]: what fncs.Get returned with a nil error
  httpResp,    \* httpResp[p]: status and body of the transport's response
  response,    \* response[p]: the *HttpResponse returned (Nil: nil)
  err,         \* err[p]: the error returned
  gets,        \* gets[p]: the fncs.Get invocations of p's call
  sets,        \* sets[p]: the fncs.Set invocations of p's call
  dispatched,  \* dispatched[p]: h.client.Do invocations of p's call
  calls,       \* calls started so far
  args,        \* SpecArgs: the arguments of the one call, and h.cacheObj before it
  prepared,    \* SpecArgs: the whole *http.Request prepareRequest returned
  newOpts,     \* the THttpOptions NewHttpClient was called with
  easyRqstClient, \* easyRequest: endpoint, maxRetry, retryWaitMax, logger
  client,      \* the retryablehttp.Client: RetryMax, RetryWaitMax, Logger
  logs,        \* logs[p]: the lines p's call wrote through the logger
  probe        \* SpecXml, SpecKeys: the input of a function and its result

vars == <<hCacheObj, store, pc, req, supplied, key, cached, httpResp,
          response, err, gets, sets, dispatched, calls, args, prepared,
          newOpts, easyRqstClient, client, logs, probe>>

(* ------------------------- the cache key ------------------------------ *)
\* url.QueryEscape, on the strings the callers use
QueryEscape(s) == IF s = "x y" THEN "x+y" ELSE s

\* the keys the callers use, in the order sort.Strings gives them
KeyOrder == <<"a", "b">>

RECURSIVE JoinAmp(_)
JoinAmp(parts) ==
  IF parts = <<>> THEN ""
  ELSE IF Len(parts) = 1 THEN parts[1]
  ELSE parts[1] \o "&" \o JoinAmp(Tail(parts))

RECURSIVE SortByKey(_, _)
SortByKey(pairs, order) ==
  IF order = <<>> THEN <<>>
  ELSE SelectSeq(pairs, LAMBDA pr : pr[1] = order[1]) \o SortByKey(pairs, Tail(order))

\* url.Values.Encode: "k=v" for every value, keys sorted, joined by "&"
QueryEncode(pairs) ==
  LET sorted == SortByKey(pairs, KeyOrder)
  IN  JoinAmp([i \in 1..Len(sorted) |->
                 QueryEscape(sorted[i][1]) \o "=" \o QueryEscape(sorted[i][2])])

\* a faulty variant: the query is left out of the key
CacheKeyOfNoQuery(method, idempotency, path, rawQuery) ==
  method \o "_" \o idempotency \o "_" \o path

\* fmt.Sprintf("%s_%s_%s", method, idempotency, fmt.Sprintf("%s?%s", path, rawQuery))
CacheKeyOf(method, idempotency, path, rawQuery) ==
  method \o "_" \o idempotency \o "_" \o (path \o "?" \o rawQuery)

CacheKey(r, obj) == CacheKeyOf(r.Method, obj.idempotency, r.Path, r.RawQuery)

(* ---------------- toStruct: json.Marshal, then json.Unmarshal --------- *)
Pad == 64          \* the '=' of base64, beside the sextets 0..63

Min(a, b) == IF a < b THEN a ELSE b

\* one group of 1..3 bytes as 4 base64 symbols
EncGroup(g) ==
  LET b(i) == IF i <= Len(g) THEN g[i] ELSE 0
      v == b(1) * 65536 + b(2) * 256 + b(3)
      s == << v \div 262144, (v \div 4096) % 64, (v \div 64) % 64, v % 64 >>
  IN  [i \in 1..4 |-> IF i <= Len(g) + 1 THEN s[i] ELSE Pad]

RECURSIVE Base64Encode(_)
Base64Encode(bytes) ==
  IF bytes = <<>> THEN <<>>
  ELSE LET n == Min(3, Len(bytes))
       IN  EncGroup(SubSeq(bytes, 1, n)) \o Base64Encode(SubSeq(bytes, n + 1, Len(bytes)))

\* 4 base64 symbols as 1..3 bytes
DecGroup(s) ==
  LET x(i) == IF s[i] = Pad THEN 0 ELSE s[i]
      v == x(1) * 262144 + x(2) * 4096 + x(3) * 64 + x(4)
      n == Cardinality({i \in 1..4 : s[i] # Pad}) - 1
      b == << v \div 65536, (v \div 256) % 256, v % 256 >>
  IN  SubSeq(b, 1, n)

RECURSIVE Base64Decode(_)
Base64Decode(syms) ==
  IF Len(syms) < 4 THEN <<>>
  ELSE DecGroup(SubSeq(syms, 1, 4)) \o Base64Decode(SubSeq(syms, 5, Len(syms)))

\* the values a cache can hand back: a stored *HttpResponse, nil, anything else
EnvelopeValue(e) == [t |-> "envelope", e |-> e]
NilValue == [t |-> "nil"]
StringValue == [t |-> "string"]
ForeignValues == {NilValue, StringValue}

\* json.Marshal: only the exported fields of HttpResponse are written
MarshalJSON(m) ==
  CASE m.t = "envelope" ->
         [t |-> "object", FromCache |-> m.e.FromCache,
          StatusCode |-> m.e.StatusCode, Body |-> Base64Encode(m.e.Body)]
    [] m.t = "nil" -> [t |-> "null"]
    [] OTHER -> [t |-> "string"]

ZeroHttpResponse ==
  [method |-> "", cacheKey |-> "", FromCache |-> FALSE, StatusCode |-> 0, Body |-> <<>>]

\* json.Unmarshal into a *HttpResponse: null leaves the pointer nil, any other
\* JSON value allocates the struct, an object fills its exported fields
UnmarshalHttpResponse(data) ==
  CASE data.t = "null" -> Nil
    [] data.t = "object" ->
         [ZeroHttpResponse EXCEPT !.FromCache = data.FromCache,
                                  !.StatusCode = data.StatusCode,
                                  !.Body = Base64Decode(data.Body)]
    [] OTHER -> ZeroHttpResponse

toStruct(m) == UnmarshalHttpResponse(MarshalJSON(m))

(* --------------------------- prepareRequest --------------------------- *)
\* the ReqOptions after the options are applied
ReqOptions ==
  [queries : QueryOptions, headers : HeaderOptions, payload : PayloadShapes,
   files : FileOptions, cacheObj : CacheOptions]

\* a Go map read: the zero value when the key is absent
HeaderValue(headers, k) == IF k \in DOMAIN headers THEN headers[k] ELSE ""

\* handleMultipartFormData: fails when a file cannot be opened; otherwise the
\* body and writer.FormDataContentType()
handleMultipartFormData(payload, files) ==
  IF files = "missing"
  THEN [err |-> "failed to open file", body |-> "none", contentType |-> ""]
  ELSE [err |-> NoError, body |-> "multipart",
        contentType |-> "multipart/form-data; boundary=..."]

\* the switch on options.headers["Content-Type"]: the error, the body, and
\* options.headers after it
EncodePayload(o) ==
  LET contentType == HeaderValue(o.headers, "Content-Type")
  IN  IF o.payload = "nil" /\ o.files = "nil"
      THEN [err |-> NoError, body |-> "none", headers |-> o.headers]
      ELSE CASE contentType = "application/x-www-form-urlencoded" ->
                  IF o.payload = "map[string]string"
                  THEN [err |-> NoError, body |-> "form", headers |-> o.headers]
                  ELSE [err |-> "payload should be a map[string]string for x-www-form-urlencoded",
                        body |-> "none", headers |-> o.headers]
             [] contentType = "multipart/form-data" ->
                  IF o.payload # "map[string]string"
                  THEN [err |-> "payload should be a map[string]string for multipart/form-data",
                        body |-> "none", headers |-> o.headers]
                  ELSE LET m == handleMultipartFormData(o.payload, o.files)
                       IN  IF m.err # NoError
                           THEN [err |-> m.err, body |-> "none", headers |-> o.headers]
                           ELSE [err |-> NoError, body |-> m.body,
                                 headers |-> [o.headers EXCEPT
                                                !["Content-Type"] = m.contentType]]
             [] contentType = "application/xml" ->
                  IF o.payload # "map[string]interface{}"
                  THEN [err |-> "payload should be a map[string]interface{} for application/xml",
                        body |-> "none", headers |-> o.headers]
                  ELSE [err |-> NoError, body |-> "xml", headers |-> o.headers]
             [] OTHER -> [err |-> NoError, body |-> "json", headers |-> o.headers]

\* http.NewRequest: the empty method means GET
NewRequestMethod(method) == IF method = "" THEN "GET" ELSE method

\* textproto.CanonicalMIMEHeaderKey, on the keys the callers use
CanonicalMIMEHeaderKey(k) == IF k = "content-type" THEN "Content-Type" ELSE k

\* http.Header.Add: the value is appended under the canonical key
HeaderAdd(header, k, v) ==
  LET c == CanonicalMIMEHeaderKey(k)
  IN  IF c \in DOMAIN header
      THEN [header EXCEPT ![c] = Append(@, v)]
      ELSE header @@ (c :> <<v>>)

\* for k, v := range options.headers { req.Header.Add(k, v) }
RECURSIVE AddHeaders(_, _, _)
AddHeaders(header, headers, keys) ==
  IF keys = {} THEN header
  ELSE LET k == CHOOSE x \in keys : TRUE
       IN  AddHeaders(HeaderAdd(header, k, headers[k]), headers, keys \ {k})

\* the header of the request: every entry of options.headers, and the default
\* Content-Type when options.headers has no "Content-Type" key
RequestHeader(headers) ==
  LET header == AddHeaders(EmptyMap, headers, DOMAIN headers)
  IN  IF "Content-Type" \notin DOMAIN headers
      THEN HeaderAdd(header, "Content-Type", "application/json")
      ELSE header

\* the *http.Request prepareRequest builds once the payload is encoded
NewRequest(method, endpoint, o, enc) ==
  [Method |-> NewRequestMethod(method),
   Path |-> endpoint.path,
   RawQuery |-> QueryEncode(endpoint.query \o o.queries),
   Header |-> RequestHeader(enc.headers),
   Body |-> enc.body]

\* whether prepareRequest installs the call's cacheObj in the client
InstallsCacheObj(o) == o.cacheObj # Nil /\ o.cacheObj.fncs # NilCache

\* a faulty variant: the cacheObj is installed before the payload is encoded
prepareRequestInstallFirst(method, endpoint, o, h) ==
  LET enc == EncodePayload(o)
      installed == IF InstallsCacheObj(o) THEN o.cacheObj ELSE h
  IN  IF enc.err # NoError
      THEN [err |-> enc.err, req |-> Nil, cacheObj |-> installed]
      ELSE [err |-> NoError, req |-> NewRequest(method, endpoint, o, enc),
            cacheObj |-> installed]

\* prepareRequest: the request (or the error) and the client's cacheObj after it
prepareRequest(method, endpoint, o, h) ==
  LET enc == EncodePayload(o)
  IN  IF enc.err # NoError
      THEN [err |-> enc.err, req |-> Nil, cacheObj |-> h]
      ELSE [err |-> NoError, req |-> NewRequest(method, endpoint, o, enc),
            cacheObj |-> IF InstallsCacheObj(o) THEN o.cacheObj ELSE h]

\* what executeRequest reads of the request: its method, path and query
RequestLine(r) ==
  IF r = Nil THEN Nil
  ELSE [Method |-> r.Method, Path |-> r.Path, RawQuery |-> r.RawQuery]

(* ------------------- convertToXMLElements (XML payloads) --------------- *)
\* the values of a map[string]interface{}: strings, nested maps, anything else
StringOf(s) == [t |-> "string", s |-> s]
IntOf(n) == [t |-> "int", n |-> n]
MapOf(m) == [t |-> "map", m |-> m]

XmlKeys == {"a", "b"}
Strings == {StringOf("v")}

\* the maps of strings and maps, of at most d levels over XmlKeys, the empty
\* map among them
RECURSIVE XmlMaps(_)
XmlMaps(d) ==
  LET values == IF d <= 1 THEN Strings
                ELSE Strings \cup {MapOf(m) : m \in XmlMaps(d - 1)}
  IN  UNION {[K -> values] : K \in SUBSET XmlKeys}

\* the payloads: those maps, and the maps with a value of another type
XmlPayloads ==
  XmlMaps(MaxDepth)
    \cup UNION {[K -> Strings \cup {IntOf(7)}] : K \in SUBSET XmlKeys}

\* fmt.Sprintf("%v", v), on the values that are neither string nor map
Sprintv(v) == CASE v.t = "int" /\ v.n = 7 -> "7"

\* the orders in which a range over a map can visit its keys
Orders(keys) ==
  {order \in [1..Cardinality(keys) -> keys] :
     \A i, j \in 1..Cardinality(keys) : i # j => order[i] # order[j]}

\* a faulty variant: a nested map is written as text, not as child elements
convertToXMLElementsFlat(data) ==
  {[i \in 1..Cardinality(DOMAIN data) |->
      [XMLName |-> order[i],
       Content |-> IF data[order[i]].t = "string" THEN data[order[i]].s ELSE "map[]",
       Children |-> <<>>]] : order \in Orders(DOMAIN data)}

\* convertToXMLElements: the slices it can return, one for every order in
\* which the maps are ranged over; a nil slice is the empty sequence
RECURSIVE convertToXMLElements(_)
convertToXMLElements(data) ==
  LET Elements(k) ==
        CASE data[k].t = "string" ->
               {[XMLName |-> k, Content |-> data[k].s, Children |-> <<>>]}
          [] data[k].t = "map" ->
               {[XMLName |-> k, Content |-> "", Children |-> c] :
                  c \in convertToXMLElements(data[k].m)}
          [] OTHER ->
               {[XMLName |-> k, Content |-> Sprintv(data[k]), Children |-> <<>>]}
      Choices == {f \in [DOMAIN data -> UNION {Elements(k) : k \in DOMAIN data}] :
                    \A k \in DOMAIN data : f[k] \in Elements(k)}
  IN  {[i \in 1..Cardinality(DOMAIN data) |-> f[order[i]]] :
         order \in Orders(DOMAIN data), f \in Choices}

(* ----------------------------- NewHttpClient --------------------------- *)
\* a THttpOption sets one field of the easyRequest
WithRetry(max) == [field |-> "maxRetry", value |-> max]
WithRetryWaitMax(wait) == [field |-> "retryWaitMax", value |-> wait]
WithLogger(logger) == [field |-> "logger", value |-> logger]

\* the values handed to WithLogger, by the interfaces of retryablehttp they
\* implement: LeveledLogger, Logger, both, neither
Loggers == [LeveledLogger : BOOLEAN, Logger : BOOLEAN]

HttpOptions ==
  {WithRetry(0), WithRetry(5), WithRetryWaitMax(2)}
    \cup {WithLogger(l) : l \in Loggers}

\* the option lists NewHttpClient is called with
OptionLists == {<<>>} \cup {<<a>> : a \in HttpOptions}
                 \cup {<<a, b>> : a \in HttpOptions, b \in HttpOptions}

\* for _, opt := range opts { opt(easyRqstClient) }
RECURSIVE ApplyOptions(_, _)
ApplyOptions(e, opts) ==
  IF opts = <<>> THEN e
  ELSE ApplyOptions([e EXCEPT ![Head(opts).field] = Head(opts).value], Tail(opts))

\* a faulty variant: the transport is configured before the options are applied
NewHttpClientBeforeOptions(endpoint, opts) ==
  LET e == [endpoint |-> endpoint, maxRetry |-> DefaultMaxRetry,
            retryWaitMax |-> DefaultRetryWaitMax, logger |-> Nil]
  IN  [easyRqstClient |-> ApplyOptions(e, opts),
       client |-> [RetryMax |-> e.maxRetry, RetryWaitMax |-> e.retryWaitMax,
                   Logger |-> e.logger]]

\* NewHttpClient: the easyRequest it returns and the retryablehttp.Client
\* behind its transport
NewHttpClient(endpoint, opts) ==
  LET e == ApplyOptions([endpoint |-> endpoint, maxRetry |-> DefaultMaxRetry,
                         retryWaitMax |-> DefaultRetryWaitMax, logger |-> Nil],
                        opts)
  IN  [easyRqstClient |-> e,
       client |-> [RetryMax |-> e.maxRetry, RetryWaitMax |-> e.retryWaitMax,
                   Logger |-> e.logger]]

\* a faulty variant: a logger with both interfaces is written to through both
profileBothInterfaces(logger, url, method) ==
  (IF logger # Nil /\ logger.LeveledLogger
   THEN <<[via |-> "Debug", msg |-> "REQUEST_TIME", url |-> url, method |-> method]>>
   ELSE <<>>)
    \o (IF logger # Nil /\ logger.Logger
        THEN <<[via |-> "Printf", msg |-> "REQUEST_TIME", url |-> url, method |-> method]>>
        ELSE <<>>)

\* the lines the closure of profile writes when it runs: the type switch on
\* h.logger takes the first interface that matches
profile(logger, url, method) ==
  IF logger # Nil /\ logger.LeveledLogger
  THEN <<[via |-> "Debug", msg |-> "REQUEST_TIME", url |-> url, method |-> method]>>
  ELSE IF logger # Nil /\ logger.Logger
       THEN <<[via |-> "Printf", msg |-> "REQUEST_TIME", url |-> url, method |-> method]>>
       ELSE <<>>

(* ------------------------------ the state ------------------------------ *)
\* a client built from the option list opts
Constructed(opts) ==
  /\ newOpts = opts
  /\ easyRqstClient = NewHttpClient(Endpoint, opts).easyRqstClient
  /\ client = NewHttpClient(Endpoint, opts).client

\* a client as NewHttpClient(endpoint) returns it, no call made
Quiet ==
  /\ Constructed(<<>>)
  /\ logs = [p \in Procs |-> <<>>]
  /\ hCacheObj = Nil
  /\ store = [c \in Caches |-> <<>>]
  /\ pc = [p \in Procs |-> "idle"]
  /\ req = [p \in Procs |-> Nil]
  /\ supplied = [p \in Procs |-> Nil]
  /\ key = [p \in Procs |-> ""]
  /\ cached = [p \in Procs |-> Nil]
  /\ httpResp = [p \in Procs |-> Nil]
  /\ response = [p \in Procs |-> Nil]
  /\ err = [p \in Procs |-> NoError]
  /\ gets = [p \in Procs |-> <<>>]
  /\ sets = [p \in Procs |-> <<>>]
  /\ dispatched = [p \in Procs |-> 0]
  /\ calls = 0
  /\ args = Nil
  /\ prepared = Nil

Init == Quiet /\ probe = Nil

\* a call enters: prepareRequest, and executeRequest if it prepared a request
Call(p, method, o) ==
  /\ pc[p] = "idle"
  /\ calls' = calls + 1
  /\ LET r == prepareRequest(method, easyRqstClient.endpoint, o, hCacheObj)
     IN  /\ hCacheObj' = r.cacheObj
         /\ req' = [req EXCEPT ![p] = RequestLine(r.req)]
         /\ err' = [err EXCEPT ![p] = r.err]
         /\ pc' = [pc EXCEPT ![p] = IF r.err = NoError THEN "execute" ELSE "done"]
  /\ supplied' = [supplied EXCEPT ![p] = o.cacheObj]
  /\ key' = [key EXCEPT ![p] = ""]
  /\ cached' = [cached EXCEPT ![p] = Nil]
  /\ httpResp' = [httpResp EXCEPT ![p] = Nil]
  /\ response' = [response EXCEPT ![p] = Nil]
  /\ gets' = [gets EXCEPT ![p] = <<>>]
  /\ sets' = [sets EXCEPT ![p] = <<>>]
  /\ dispatched' = [dispatched EXCEPT ![p] = 0]
  /\ logs' = [logs EXCEPT ![p] = <<>>]
  /\ UNCHANGED <<store, args, newOpts, easyRqstClient, client, probe>>

Get(p) == (\E o \in ReqOptions : Call(p, "GET", o)) /\ UNCHANGED prepared

Post(p) == (\E o \in ReqOptions : Call(p, "POST", o)) /\ UNCHANGED prepared

Custom(p) ==
  /\ \E method \in CustomMethods, o \in ReqOptions : Call(p, method, o)
  /\ UNCHANGED prepared

\* defer h.profile(req.URL.Path, req.Method)(): the closure runs when the step
\* leaves executeRequest, by a return or by a panic
Deferred(p) ==
  logs' = [logs EXCEPT ![p] =
             IF pc'[p] \in {"done", "panic"}
             THEN @ \o profile(easyRqstClient.logger, req[p].Path, req[p].Method)
             ELSE @]

\* executeRequest, the test of h.cacheObj and the key
ExecKey(p) ==
  /\ pc[p] = "execute"
  /\ IF hCacheObj # Nil /\ hCacheObj.fncs # NilCache
     THEN /\ key' = [key EXCEPT ![p] = CacheKey(req[p], hCacheObj)]
          /\ pc' = [pc EXCEPT ![p] = "get"]
     ELSE /\ pc' = [pc EXCEPT ![p] = "dispatch"]
          /\ UNCHANGED key
  /\ UNCHANGED <<hCacheObj, store, req, supplied, cached, httpResp, response,
                 err, gets, sets, dispatched, calls, args, prepared,
                 newOpts, easyRqstClient, client, probe, logs>>

\* what fncs.Get can answer: an error, the value stored, or a value that this
\* client did not store
GetAnswers(c, k) ==
  {[err |-> "cache error", val |-> Nil]}
    \cup (IF k \in DOMAIN store[c]
          THEN {[err |-> NoError, val |-> store[c][k]]} ELSE {})
    \cup {[err |-> NoError, val |-> v] : v \in ForeignValues}

\* the envelope of a hit: the value deserialized, with the key and the flag set
CachedResponse(data, k) == [data EXCEPT !.cacheKey = k, !.FromCache = TRUE]

\* executeRequest, h.cacheObj.fncs.Get and the return of a hit
ExecGet(p) ==
  /\ pc[p] = "get"
  /\ LET c == hCacheObj.fncs
     IN  /\ gets' = [gets EXCEPT ![p] = Append(@, [cache |-> c, key |-> key[p]])]
         /\ \E a \in GetAnswers(c, key[p]) :
              IF a.err # NoError
              THEN /\ pc' = [pc EXCEPT ![p] = "dispatch"]
                   /\ UNCHANGED <<cached, response>>
              ELSE LET data == toStruct(a.val)
                   IN  /\ cached' = [cached EXCEPT ![p] = a.val]
                       /\ IF data = Nil
                          THEN /\ pc' = [pc EXCEPT ![p] = "panic"]
                               /\ UNCHANGED response
                          ELSE /\ pc' = [pc EXCEPT ![p] = "done"]
                               /\ response' = [response EXCEPT ![p] =
                                    CachedResponse(data, key[p])]
  /\ UNCHANGED <<hCacheObj, store, req, supplied, key, httpResp, err, sets,
                 dispatched, calls, args, prepared,
                 newOpts, easyRqstClient, client, probe>>
  /\ Deferred(p)

\* what h.client.Do and io.ReadAll can answer
TransportAnswers ==
  {[err |-> "transport error", StatusCode |-> 0, Body |-> <<>>]}
    \cup {[err |-> "read error", StatusCode |-> s, Body |-> <<>>] : s \in Statuses}
    \cup {[err |-> NoError, StatusCode |-> s, Body |-> b] : s \in Statuses, b \in Bodies}

\* a faulty variant: no envelope beside a body-read error
PartialResponseNil(r, status) == Nil

\* the envelope returned beside a body-read error
PartialResponse(r, status) ==
  [ZeroHttpResponse EXCEPT !.method = r.Method, !.StatusCode = status]

\* a faulty variant: the envelope does not record the request's method
NewResponseNoMethod(r, status, body) ==
  [ZeroHttpResponse EXCEPT !.StatusCode = status, !.Body = body]

\* the envelope of a response read to its end
NewResponse(r, status, body) ==
  [ZeroHttpResponse EXCEPT !.method = r.Method, !.StatusCode = status, !.Body = body]

\* a faulty variant: the request is handed to the transport a second time
DoAgain(n) == n + 2

\* h.client.Do(req): the request is handed to the transport, once
Do(n) == n + 1

\* executeRequest, h.client.Do and io.ReadAll
ExecDispatch(p) ==
  /\ pc[p] = "dispatch"
  /\ dispatched' = [dispatched EXCEPT ![p] = Do(@)]
  /\ \E a \in TransportAnswers :
       CASE a.err = "transport error" ->
              /\ pc' = [pc EXCEPT ![p] = "done"]
              /\ response' = [response EXCEPT ![p] = Nil]
              /\ err' = [err EXCEPT ![p] = a.err]
              /\ UNCHANGED httpResp
         [] a.err = "read error" ->
              /\ pc' = [pc EXCEPT ![p] = "done"]
              /\ response' = [response EXCEPT ![p] =
                   PartialResponse(req[p], a.StatusCode)]
              /\ err' = [err EXCEPT ![p] = a.err]
              /\ httpResp' = [httpResp EXCEPT ![p] =
                   [StatusCode |-> a.StatusCode, Body |-> a.Body]]
         [] OTHER ->
              /\ pc' = [pc EXCEPT ![p] = "respond"]
              /\ httpResp' = [httpResp EXCEPT ![p] =
                   [StatusCode |-> a.StatusCode, Body |-> a.Body]]
              /\ UNCHANGED <<response, err>>
  /\ UNCHANGED <<hCacheObj, store, req, supplied, key, cached, gets, sets, calls, args, prepared,
                 newOpts, easyRqstClient, client, probe>>
  /\ Deferred(p)

\* a faulty variant: every response that is not a server error is stored
CacheableBelow500(status) == status < 500

\* whether a response with this status code is stored
Cacheable(status) == status = StatusOK \/ status = StatusCreated

\* executeRequest, the response and the test of h.cacheObj before the store
ExecRespond(p) ==
  /\ pc[p] = "respond"
  /\ LET r == NewResponse(req[p], httpResp[p].StatusCode, httpResp[p].Body)
     IN  IF hCacheObj # Nil /\ hCacheObj.fncs # NilCache /\ Cacheable(r.StatusCode)
         THEN /\ response' = [response EXCEPT ![p] =
                   [r EXCEPT !.cacheKey = CacheKey(req[p], hCacheObj)]]
              /\ pc' = [pc EXCEPT ![p] = "set"]
         ELSE /\ response' = [response EXCEPT ![p] = r]
              /\ pc' = [pc EXCEPT ![p] = "done"]
  /\ UNCHANGED <<hCacheObj, store, req, supplied, key, cached, httpResp, err,
                 gets, sets, dispatched, calls, args, prepared,
                 newOpts, easyRqstClient, client, probe>>
  /\ Deferred(p)

\* what fncs.Set can answer
SetAnswers == {NoError, "set error"}

\* a faulty variant: the error of fncs.Set is returned
ErrorAfterSetSurfaced(setErr) == setErr

\* the error executeRequest returns after fncs.Set answered setErr
ErrorAfterSet(setErr) == NoError

\* executeRequest, h.cacheObj.fncs.Set and the return
ExecSet(p) ==
  /\ pc[p] = "set"
  /\ LET c == hCacheObj.fncs
         k == response[p].cacheKey
     IN  \E setErr \in SetAnswers :
           /\ sets' = [sets EXCEPT ![p] =
                 Append(@, [cache |-> c, key |-> k, value |-> response[p],
                            expiry |-> hCacheObj.expiry, err |-> setErr])]
           /\ store' = IF setErr = NoError
                       THEN [store EXCEPT ![c] = (k :> EnvelopeValue(response[p])) @@ @]
                       ELSE store
           /\ err' = [err EXCEPT ![p] = ErrorAfterSet(setErr)]
  /\ pc' = [pc EXCEPT ![p] = "done"]
  /\ UNCHANGED <<hCacheObj, req, supplied, key, cached, httpResp, response,
                 gets, dispatched, calls, args, prepared,
                 newOpts, easyRqstClient, client, probe>>
  /\ Deferred(p)

\* the caller takes the result; the call's locals are gone
Return(p) ==
  /\ pc[p] = "done"
  /\ pc' = [pc EXCEPT ![p] = "idle"]
  /\ req' = [req EXCEPT ![p] = Nil]
  /\ supplied' = [supplied EXCEPT ![p] = Nil]
  /\ key' = [key EXCEPT ![p] = ""]
  /\ cached' = [cached EXCEPT ![p] = Nil]
  /\ httpResp' = [httpResp EXCEPT ![p] = Nil]
  /\ response' = [response EXCEPT ![p] = Nil]
  /\ err' = [err EXCEPT ![p] = NoError]
  /\ gets' = [gets EXCEPT ![p] = <<>>]
  /\ sets' = [sets EXCEPT ![p] = <<>>]
  /\ dispatched' = [dispatched EXCEPT ![p] = 0]
  /\ UNCHANGED <<hCacheObj, store, calls, args, prepared,
                 newOpts, easyRqstClient, client, probe>>
  /\ logs' = [logs EXCEPT ![p] = <<>>]

(* --------------------------- specifications --------------------------- *)
\* one caller, its calls made one after the other
Caller == CHOOSE p \in Procs : TRUE

Next ==
  \/ calls < MaxCalls /\ Get(Caller)
  \/ calls < MaxCalls /\ Post(Caller)
  \/ calls < MaxCalls /\ Custom(Caller)
  \/ ExecKey(Caller)
  \/ ExecGet(Caller)
  \/ ExecDispatch(Caller)
  \/ ExecRespond(Caller)
  \/ ExecSet(Caller)
  \/ Return(Caller)

Spec == Init /\ [][Next]_vars

\* every caller makes one call, in parallel with the others, on the one client;
\* the callers enter in the order of their numbers
NextConc ==
  \E p \in Procs :
    \/ calls = p - 1 /\ Get(p)
    \/ calls = p - 1 /\ Post(p)
    \/ calls = p - 1 /\ Custom(p)
    \/ ExecKey(p)
    \/ ExecGet(p)
    \/ ExecDispatch(p)
    \/ ExecRespond(p)
    \/ ExecSet(p)

SpecConc == Init /\ [][NextConc]_vars

\* one call with its arguments kept, on a client that an earlier call may have
\* left a cacheObj in
CallArguments ==
  [method : {"GET", "POST"} \cup CustomMethods, o : ReqOptions,
   h : {Nil, NewCacheObj("c1", 60, "a")}]

InitArgs ==
  /\ Constructed(<<>>)
  /\ logs = [p \in Procs |-> <<>>]
  /\ probe = Nil
  /\ args \in CallArguments
  /\ hCacheObj = args.h
  /\ store = [c \in Caches |-> <<>>]
  /\ pc = [p \in Procs |-> "idle"]
  /\ req = [p \in Procs |-> Nil]
  /\ supplied = [p \in Procs |-> Nil]
  /\ key = [p \in Procs |-> ""]
  /\ cached = [p \in Procs |-> Nil]
  /\ httpResp = [p \in Procs |-> Nil]
  /\ response = [p \in Procs |-> Nil]
  /\ err = [p \in Procs |-> NoError]
  /\ gets = [p \in Procs |-> <<>>]
  /\ sets = [p \in Procs |-> <<>>]
  /\ dispatched = [p \in Procs |-> 0]
  /\ calls = 0
  /\ prepared = Nil

\* the one call, with the request prepareRequest returns to it kept whole
CallArgs(p) ==
  /\ calls = 0
  /\ Call(p, args.method, args.o)
  /\ prepared' = prepareRequest(args.method, easyRqstClient.endpoint, args.o,
                              hCacheObj).req

NextArgs ==
  \/ CallArgs(Caller)
  \/ ExecKey(Caller)
  \/ ExecGet(Caller)
  \/ ExecDispatch(Caller)
  \/ ExecRespond(Caller)
  \/ ExecSet(Caller)
  \/ Return(Caller)

SpecArgs == InitArgs /\ [][NextArgs]_vars

\* a client built with any of the option lists, and one call through it
InitNew ==
  /\ \E opts \in OptionLists : Constructed(opts)
  /\ logs = [p \in Procs |-> <<>>]
  /\ probe = Nil
  /\ hCacheObj = Nil
  /\ store = [c \in Caches |-> <<>>]
  /\ pc = [p \in Procs |-> "idle"]
  /\ req = [p \in Procs |-> Nil]
  /\ supplied = [p \in Procs |-> Nil]
  /\ key = [p \in Procs |-> ""]
  /\ cached = [p \in Procs |-> Nil]
  /\ httpResp = [p \in Procs |-> Nil]
  /\ response = [p \in Procs |-> Nil]
  /\ err = [p \in Procs |-> NoError]
  /\ gets = [p \in Procs |-> <<>>]
  /\ sets = [p \in Procs |-> <<>>]
  /\ dispatched = [p \in Procs |-> 0]
  /\ calls = 0
  /\ args = Nil
  /\ prepared = Nil

NextNew ==
  \/ calls = 0 /\ Get(Caller)
  \/ calls = 0 /\ Post(Caller)
  \/ calls = 0 /\ Custom(Caller)
  \/ ExecKey(Caller)
  \/ ExecGet(Caller)
  \/ ExecDispatch(Caller)
  \/ ExecRespond(Caller)
  \/ ExecSet(Caller)
  \/ Return(Caller)

SpecNew == InitNew /\ [][NextNew]_vars

\* the variables of the client and of its calls
clientVars == <<hCacheObj, store, pc, req, supplied, key, cached, httpResp,
                response, err, gets, sets, dispatched, calls, args, prepared,
                newOpts, easyRqstClient, client, logs>>

\* convertToXMLElements applied to a payload
InitXml ==
  /\ Quiet
  /\ probe \in {[in |-> m, applied |-> FALSE, out |-> <<>>] : m \in XmlPayloads}

ConvertToXML ==
  /\ ~probe.applied
  /\ \E elements \in convertToXMLElements(probe.in) :
       probe' = [probe EXCEPT !.applied = TRUE, !.out = elements]
  /\ UNCHANGED clientVars

NextXml == ConvertToXML

SpecXml == InitXml /\ [][NextXml]_vars

\* the key of executeRequest computed for two requests and their bindings:
\* methods as Custom accepts them, tags as WithCache accepts them
KeyRequests ==
  [Method : {"GET", "PUT", "PUT_a"}, Path : {"/json", "/x"}, RawQuery : {"", "a=1"}]
KeyBindings == {NewCacheObj("c1", 60, tag) : tag \in {"a", "b", "a_b"}}
KeyInputs == [r : KeyRequests, obj : KeyBindings]

InitKeys ==
  /\ Quiet
  /\ probe \in {[in |-> <<x, y>>, applied |-> FALSE, out |-> <<>>] :
                  x \in KeyInputs, y \in KeyInputs}

ComputeKeys ==
  /\ ~probe.applied
  /\ probe' = [probe EXCEPT !.applied = TRUE,
                            !.out = <<CacheKey(probe.in[1].r, probe.in[1].obj),
                                      CacheKey(probe.in[2].r, probe.in[2].obj)>>]
  /\ UNCHANGED clientVars

NextKeys == ComputeKeys

SpecKeys == InitKeys /\ [][NextKeys]_vars

(* ------------------------------- claims -------------------------------- *)
\* the call of p was made with WithCache and a cache
WithBinding(p) == supplied[p] # Nil /\ supplied[p].fncs # NilCache

\* the key of p's request under p's own binding, written out
OwnKey(p) ==
  req[p].Method \o "_" \o supplied[p].idempotency \o "_" \o req[p].Path
    \o "?" \o req[p].RawQuery

\* fncs.Get answered p's call with a value and a nil error
GotValue(p) == gets[p] # <<>> /\ cached[p] # Nil

\* fncs.Get answered p's call with an error, and the transport answered in full
MissedAndRead(p) ==
  /\ pc[p] = "done"
  /\ gets[p] # <<>> /\ cached[p] = Nil
  /\ httpResp[p] # Nil /\ err[p] # "read error"

\* C1: a call made with a cache binding whose Get answers a value without an
\* error returns an envelope with FromCache = TRUE and CacheKey() = the key,
\* a nil error, and has not invoked the transport.
C1_HitReturnsCached ==
  \A p \in Procs :
    (WithBinding(p) /\ GotValue(p)) =>
      /\ pc[p] = "done"
      /\ response[p] # Nil
      /\ response[p].FromCache = TRUE
      /\ response[p].cacheKey = OwnKey(p)
      /\ gets[p][1].key = OwnKey(p)
      /\ err[p] = NoError
      /\ dispatched[p] = 0

\* C2: a call with a cache binding that misses and whose round trip and body
\* read succeed invokes Set exactly once, with the computed key, the full
\* envelope and the binding's time-to-live, when the status is 200 or 201, and
\* never for another status.
C2_StoreOn200And201Only ==
  \A p \in Procs :
    (WithBinding(p) /\ MissedAndRead(p)) =>
      IF httpResp[p].StatusCode \in {200, 201}
      THEN /\ Len(sets[p]) = 1
           /\ sets[p][1].cache = supplied[p].fncs
           /\ sets[p][1].key = OwnKey(p)
           /\ sets[p][1].expiry = supplied[p].expiry
           /\ sets[p][1].value = response[p]
           /\ response[p].StatusCode = httpResp[p].StatusCode
           /\ response[p].Body = httpResp[p].Body
           /\ response[p].method = req[p].Method
      ELSE sets[p] = <<>>

C2_Witness ==
  \E p \in Procs :
    /\ WithBinding(p) /\ MissedAndRead(p)
    /\ httpResp[p].StatusCode = 201
    /\ Len(sets[p]) = 1
    /\ sets[p][1].expiry = 120

\* C3: a call made without a cache option performs no cache Get and no cache
\* Set, dispatches through the transport, and returns an envelope with
\* FromCache = FALSE and an empty cache key, whatever calls came before it.
C3_NoBindingNoCache ==
  \A p \in Procs :
    (pc[p] # "idle" /\ supplied[p] = Nil) =>
      /\ gets[p] = <<>>
      /\ sets[p] = <<>>
      /\ (pc[p] = "done" /\ req[p] # Nil) => dispatched[p] = 1
      /\ response[p] # Nil =>
           (response[p].FromCache = FALSE /\ response[p].cacheKey = "")

\* C4: the cache key is method_tag_path?rawQuery of the prepared request and
\* the call's binding, and the key handed to Set after a miss is the key that
\* was handed to Get in that call.
C4_KeyShape ==
  \A p \in Procs :
    /\ (WithBinding(p) /\ gets[p] # <<>>) =>
         /\ Len(gets[p]) = 1
         /\ gets[p][1].key = OwnKey(p)
         /\ req[p].RawQuery \in {"a=1", "a=1&b=x+y"}
    /\ sets[p] # <<>> =>
         /\ gets[p] # <<>>
         /\ sets[p][1].key = gets[p][1].key

C4_Witness ==
  \E p \in Procs :
    /\ sets[p] # <<>>
    /\ sets[p][1].key = "POST_b_/json?a=1&b=x+y"
    /\ gets[p][1].key = "POST_b_/json?a=1&b=x+y"

\* C5: a call whose payload or files are present and whose payload does not
\* have the shape the declared Content-Type requires returns an error and no
\* envelope, invokes neither the transport nor the cache, and leaves the
\* client's cache binding as it was.
ShapeMismatch(o) ==
  /\ o.payload # "nil" \/ o.files # "nil"
  /\ "Content-Type" \in DOMAIN o.headers
  /\ \/ /\ o.headers["Content-Type"] \in
             {"application/x-www-form-urlencoded", "multipart/form-data"}
        /\ o.payload # "map[string]string"
     \/ /\ o.headers["Content-Type"] = "application/xml"
        /\ o.payload # "map[string]interface{}"

C6_ReadErrorPartialEnvelope ==
  \A p \in Procs :
    (pc[p] = "done" /\ err[p] = "read error") =>
      /\ response[p] # Nil
      /\ response[p].StatusCode = httpResp[p].StatusCode
      /\ response[p].method = req[p].Method
      /\ response[p].Body = <<>>
      /\ sets[p] = <<>>

C6_Witness ==
  \E p \in Procs :
    /\ pc[p] = "done" /\ err[p] = "read error"
    /\ WithBinding(p)
    /\ gets[p] # <<>>
    /\ response[p].StatusCode = 201

\* C7: when Set answers an error after a 200 or 201 response, the call returns
\* a nil error and the envelope it returns when Set succeeds: the status code,
\* the body, FromCache = FALSE and the cache key.
C7_SetErrorNotSurfaced ==
  \A p \in Procs :
    (pc[p] = "done" /\ sets[p] # <<>>) =>
      /\ err[p] = NoError
      /\ response[p] =
           [method |-> req[p].Method, cacheKey |-> sets[p][1].key, FromCache |-> FALSE,
            StatusCode |-> httpResp[p].StatusCode, Body |-> httpResp[p].Body]
      /\ httpResp[p].StatusCode \in {200, 201}

C7_Witness ==
  \E p \in Procs :
    /\ pc[p] = "done" /\ sets[p] # <<>>
    /\ sets[p][1].err = "set error"
    /\ response[p].StatusCode = 200
    /\ response[p].Body = <<104, 105>>

\* C8: calls made in parallel on one client use, for their cache lookup and
\* store, the cache, the tag and the time-to-live that the call itself
\* supplied, and a call that supplied none uses no cache.
C8_OwnBindingUnderInterleaving ==
  \A p \in Procs :
    pc[p] # "idle" =>
      IF WithBinding(p)
      THEN /\ \A i \in 1..Len(gets[p]) :
                gets[p][i].cache = supplied[p].fncs /\ gets[p][i].key = OwnKey(p)
           /\ \A i \in 1..Len(sets[p]) :
                /\ sets[p][i].cache = supplied[p].fncs
                /\ sets[p][i].key = OwnKey(p)
                /\ sets[p][i].expiry = supplied[p].expiry
      ELSE gets[p] = <<>> /\ sets[p] = <<>>

\* C9: CacheKey() of a returned envelope is the computed key whenever a cache
\* binding was active for the call (a hit, or a miss with any status code),
\* and the empty string only when none was.
C9_CacheKeyIsKeyUsed ==
  \A p \in Procs :
    (pc[p] = "done" /\ response[p] # Nil) =>
      response[p].cacheKey = IF gets[p] # <<>> THEN gets[p][1].key ELSE ""

\* C10: the envelope a hit returns for an entry that a call stored has the
\* status code, the body, the Method() and the CacheKey() of the envelope
\* that was stored.
C10_StoreThenHitRoundTrip ==
  \A p \in Procs :
    (pc[p] = "done" /\ cached[p] # Nil /\ cached[p].t = "envelope") =>
      /\ response[p].StatusCode = cached[p].e.StatusCode
      /\ response[p].Body = cached[p].e.Body
      /\ response[p].cacheKey = cached[p].e.cacheKey
      /\ response[p].method = cached[p].e.method

\* C11: a prepared request carries every header supplied in the options; its
\* Content-Type is the multipart encoder's boundary-bearing type when that
\* encoder ran, otherwise the caller's Content-Type if the caller set one, and
\* application/json exactly when neither set one; application/json is never
\* added beside a Content-Type that was already set.  Header names are
\* case-insensitive: a Content-Type is set under any spelling of the name.
CallerContentTypes(o) ==
  {o.headers[k] : k \in {x \in DOMAIN o.headers :
                           CanonicalMIMEHeaderKey(x) = "Content-Type"}}

C11_HeadersAndContentType ==
  prepared # Nil =>
    /\ \A k \in DOMAIN args.o.headers :
         CanonicalMIMEHeaderKey(k) # "Content-Type" =>
           prepared.Header[CanonicalMIMEHeaderKey(k)] = <<args.o.headers[k]>>
    /\ prepared.Header["Content-Type"] =
         IF prepared.Body = "multipart"
         THEN <<"multipart/form-data; boundary=...">>
         ELSE IF CallerContentTypes(args.o) # {}
              THEN <<CHOOSE t \in CallerContentTypes(args.o) : TRUE>>
              ELSE <<"application/json">>

\* C12: after NewHttpClient the transport's retry count, its wait ceiling and
\* its logger are those of the last WithRetry / WithRetryWaitMax / WithLogger
\* supplied, or the defaults (3, one second, no logger) where none was
\* supplied; no Get / Post / Custom changes them or the client's endpoint.
LastSupplied(field, default) ==
  LET at == {i \in 1..Len(newOpts) : newOpts[i].field = field}
  IN  IF at = {} THEN default
      ELSE newOpts[CHOOSE i \in at : \A j \in at : j <= i].value

C12_TransportConfiguration ==
  /\ client.RetryMax = LastSupplied("maxRetry", 3)
  /\ client.RetryWaitMax = LastSupplied("retryWaitMax", 1)
  /\ client.Logger = LastSupplied("logger", Nil)
  /\ easyRqstClient.endpoint = Endpoint

C12_Witness ==
  /\ newOpts = <<WithRetry(5), WithRetry(0)>>
  /\ client.RetryMax = 0
  /\ pc[Caller] = "done"
  /\ dispatched[Caller] = 1

\* C13: every execution of a prepared request writes exactly one timing line
\* through the configured logger, naming the request's path and method, and
\* writes it when the execution ends, whichever way it ends (cache hit,
\* transport failure, body-read failure, success); with no logger, or a logger
\* that has neither logging interface, it writes nothing.  A call that fails
\* in preparation executes nothing and writes nothing.
Recognized(logger) == logger # Nil /\ (logger.LeveledLogger \/ logger.Logger)

AnsweredByTransport(p) ==
  /\ pc[p] = "done" /\ req[p] # Nil /\ cached[p] = Nil
  /\ httpResp[p] # Nil /\ err[p] # "read error"

\* C14 (as claimed): a call that is prepared, is not served from the cache and
\* whose response is read to its end returns a nil error and an envelope with
\* the transport's status code and body, FromCache false, and Method() equal
\* to the method of the call: GET for Get, POST for Post, the given method
\* for Custom.  A status outside 2xx is not an error.
C14_EnvelopeOfResponse ==
  \A p \in Procs :
    AnsweredByTransport(p) =>
      /\ err[p] = NoError
      /\ response[p] # Nil
      /\ response[p].StatusCode = httpResp[p].StatusCode
      /\ response[p].Body = httpResp[p].Body
      /\ response[p].FromCache = FALSE
      /\ response[p].method = args.method

\* C14 (amended): the same, with Method() equal to the method of the prepared
\* request: the given method, and GET where the given method is empty.
C14_EnvelopeOfResponseAmended ==
  \A p \in Procs :
    AnsweredByTransport(p) =>
      /\ err[p] = NoError
      /\ response[p] # Nil
      /\ response[p].StatusCode = httpResp[p].StatusCode
      /\ response[p].Body = httpResp[p].Body
      /\ response[p].FromCache = FALSE
      /\ response[p].method = IF args.method = "" THEN "GET" ELSE args.method

C14_Witness ==
  \E p \in Procs :
    /\ AnsweredByTransport(p)
    /\ args.method = ""
    /\ response[p].method = "GET"
    /\ response[p].StatusCode = 404
    /\ response[p].Body = <<104, 105>>
    /\ err[p] = NoError

\* reading an element tree back: an element with children is a mapping, any
\* other element is the string of its text
RECURSIVE ReadBack(_)
ReadBack(elements) ==
  [k \in {elements[i].XMLName : i \in 1..Len(elements)} |->
     LET e == elements[CHOOSE i \in 1..Len(elements) : elements[i].XMLName = k]
     IN  IF e.Children # <<>> THEN MapOf(ReadBack(e.Children))
         ELSE StringOf(e.Content)]

\* a mapping whose values are strings or, recursively, such mappings
RECURSIVE StringTree(_)
StringTree(m) ==
  \A k \in DOMAIN m :
    \/ m[k].t = "string"
    \/ m[k].t = "map" /\ StringTree(m[k].m)

\* the tree has one element per key at each level, named by the key, a string
\* value as its text and a nested mapping as its children
RECURSIVE Mirrors(_, _)
Mirrors(elements, m) ==
  /\ Len(elements) = Cardinality(DOMAIN m)
  /\ \A k \in DOMAIN m :
       \E i \in 1..Len(elements) :
         /\ elements[i].XMLName = k
         /\ m[k].t = "string" =>
              elements[i].Content = m[k].s /\ elements[i].Children = <<>>
         /\ m[k].t = "map" => Mirrors(elements[i].Children, m[k].m)

\* no nested mapping is empty
RECURSIVE NestedNonEmpty(_)
NestedNonEmpty(m) ==
  \A k \in DOMAIN m :
    m[k].t = "map" => (DOMAIN m[k].m # {} /\ NestedNonEmpty(m[k].m))

\* C15 (as claimed): for a payload that is a mapping of strings and nested
\* such mappings, the element tree has one element per key at each level,
\* named by the key, with strings as text and nested mappings as children,
\* and reading the tree back gives the payload.
C15_XmlTreeRoundTrip ==
  (probe.applied /\ StringTree(probe.in)) =>
    /\ Mirrors(probe.out, probe.in)
    /\ ReadBack(probe.out) = probe.in

\* C15 (amended): the same for payloads in which no nested mapping is empty.
C15_XmlTreeRoundTripAmended ==
  (probe.applied /\ StringTree(probe.in) /\ NestedNonEmpty(probe.in)) =>
    /\ Mirrors(probe.out, probe.in)
    /\ ReadBack(probe.out) = probe.in

C15_Witness ==
  /\ probe.in = ("a" :> StringOf("v")) @@
                ("b" :> MapOf(("a" :> StringOf("v")) @@ ("b" :> StringOf("v"))))
  /\ probe.applied
  /\ probe.out[1].XMLName = "b"
  /\ probe.out[1].Children =
       <<[XMLName |-> "b", Content |-> "v", Children |-> <<>>],
         [XMLName |-> "a", Content |-> "v", Children |-> <<>>]>>
  /\ probe.out[2] = [XMLName |-> "a", Content |-> "v", Children |-> <<>>]

\* C16: a call hands its request to the transport at most once; exactly once
\* when the request was prepared and the lookup did not hit (no lookup was
\* made because no binding was in effect, or Get answered an error), and not
\* at all when preparation failed or the lookup hit; an error of the
\* transport is returned as it is, with no envelope and without a Set.
C16_DispatchedAtMostOnce ==
  \A p \in Procs :
    /\ dispatched[p] <= 1
    /\ sets[p] # <<>> => dispatched[p] = 1
    /\ pc[p] \in {"done", "panic"} =>
         /\ req[p] = Nil => dispatched[p] = 0
         /\ cached[p] # Nil => dispatched[p] = 0
         /\ (req[p] # Nil /\ cached[p] = Nil) =>
              /\ dispatched[p] = 1
              /\ gets[p] = <<>> \/ Len(gets[p]) = 1
         /\ (dispatched[p] = 1 /\ httpResp[p] = Nil) =>
              /\ err[p] = "transport error"
              /\ response[p] = Nil
              /\ sets[p] = <<>>

C16_Witness ==
  \E p \in Procs :
    /\ pc[p] = "done"
    /\ Len(gets[p]) = 1 /\ cached[p] = Nil
    /\ dispatched[p] = 1
    /\ err[p] = "transport error"
    /\ response[p] = Nil
    /\ sets[p] = <<>>

\* C17: whatever value Get answers with a nil error, nil and values that are
\* not envelopes included, the call completes: it does not fault, and it
\* returns an envelope with FromCache = TRUE and the computed key.
C17_AnyCachedValueCompletes ==
  \A p \in Procs :
    /\ pc[p] # "panic"
    /\ (pc[p] = "done" /\ cached[p] # Nil) =>
         /\ response[p] # Nil
         /\ response[p].FromCache = TRUE
         /\ response[p].cacheKey = key[p]

\* C18: the keys of two requests differ whenever their (method, tag, path,
\* query) differ, also for methods and tags that contain "_".
KeyTuple(x) == <<x.r.Method, x.obj.idempotency, x.r.Path, x.r.RawQuery>>

C18_KeysDoNotCollide ==
  (probe.applied /\ KeyTuple(probe.in[1]) # KeyTuple(probe.in[2])) =>
    probe.out[1] # probe.out[2]

====
